---- MODULE Spec2Model ----
(***************************************************************************)
(* fix_setup_assume_isolated.py: a regular-expression rewriter of Swift    *)
(* test files, and the command-line loop that applies it to each path.     *)
(*                                                                         *)
(* A text is a sequence of tokens.  Each token is a fixed string of the    *)
(* source text; no token is a proper part of a literal of either pattern   *)
(* spread over two tokens, so matching on tokens is matching on the        *)
(* characters of their concatenation.                                      *)
(***************************************************************************)
EXTENDS Integers, Sequences, FiniteSets, TLC

VARIABLES sys_argv, fs, fs0, fault, pc, idx, file_path, content,
          modified_content, stdout, exit_code, trace

vars == <<sys_argv, fs, fs0, fault, pc, idx, file_path, content,
          modified_content, stdout, exit_code, trace>>

----------------------------------------------------------------------------
(* Tokens of the input text *)

MA  == "@MainActor"
WS  == " "
SUH == "override func setUp() async throws {"
SUC == "try await super.setUp()"
TDH == "override func tearDown() async throws {"
TDC == "try await super.tearDown()"
RB  == "}"
X   == "x"

(* Tokens of the replacement templates *)

OSU == "override func setUp() {"
OTD == "override func tearDown() {"
SSU == "super.setUp()"
STD == "super.tearDown()"
AI  == "MainActor.assumeIsolated {"
NL  == "\n"
NL4 == "\n    "
NL8 == "\n        "

\* \s of the patterns and the characters str.strip() removes
IsSpace(t) == t \in {WS, NL, NL4, NL8}

----------------------------------------------------------------------------
(* The two patterns, matched at a given position (re.DOTALL) *)

NoMatch == [ok |-> FALSE, start |-> 0, end |-> 0, group1 |-> <<>>]

\* greedy \s* from position i: the first position that holds no whitespace
RECURSIVE SkipSpace(_, _)
SkipSpace(s, i) ==
    IF i <= Len(s) /\ IsSpace(s[i]) THEN SkipSpace(s, i + 1) ELSE i

\* the first position >= i that holds tok, or 0
RECURSIVE FindToken(_, _, _)
FindToken(s, tok, i) ==
    IF i > Len(s) THEN 0
    ELSE IF s[i] = tok THEN i
    ELSE FindToken(s, tok, i + 1)

\* the first position k >= i with  try await super.tearDown() \s* }  at k,
\* as k and the position of the closing brace, or <<0, 0>>
RECURSIVE FindTeardownTail(_, _)
FindTeardownTail(s, i) ==
    IF i > Len(s) THEN <<0, 0>>
    ELSE IF s[i] = TDC
         THEN LET r == SkipSpace(s, i + 1)
              IN  IF r <= Len(s) /\ s[r] = RB THEN <<i, r>>
                  ELSE FindTeardownTail(s, i + 1)
    ELSE FindTeardownTail(s, i + 1)

\* @MainActor\s+override func setUp\(\) async throws \{\s*try await super\.setUp\(\)(.*?)\}
setup_pattern(s, p) ==
    IF ~(p <= Len(s) /\ s[p] = MA) THEN NoMatch
    ELSE LET h == SkipSpace(s, p + 1)
         IN  IF ~(h > p + 1 /\ h <= Len(s) /\ s[h] = SUH) THEN NoMatch
             ELSE LET c == SkipSpace(s, h + 1)
                  IN  IF ~(c <= Len(s) /\ s[c] = SUC) THEN NoMatch
                      ELSE LET r == FindToken(s, RB, c + 1)
                           IN  IF r = 0 THEN NoMatch
                               ELSE [ok |-> TRUE, start |-> p, end |-> r,
                                     group1 |-> SubSeq(s, c + 1, r - 1)]

\* @MainActor\s+override func tearDown\(\) async throws \{(.*?)try await super\.tearDown\(\)\s*\}
teardown_pattern(s, p) ==
    IF ~(p <= Len(s) /\ s[p] = MA) THEN NoMatch
    ELSE LET h == SkipSpace(s, p + 1)
         IN  IF ~(h > p + 1 /\ h <= Len(s) /\ s[h] = TDH) THEN NoMatch
             ELSE LET t == FindTeardownTail(s, h + 1)
                  IN  IF t[1] = 0 THEN NoMatch
                      ELSE [ok |-> TRUE, start |-> p, end |-> t[2],
                            group1 |-> SubSeq(s, h + 1, t[1] - 1)]

----------------------------------------------------------------------------
(* The replacement functions *)

RECURSIVE lstrip(_)
lstrip(b) ==
    IF b # <<>> /\ IsSpace(Head(b)) THEN lstrip(Tail(b)) ELSE b

RECURSIVE rstrip(_)
rstrip(b) ==
    IF b # <<>> /\ IsSpace(b[Len(b)]) THEN rstrip(SubSeq(b, 1, Len(b) - 1))
    ELSE b

\* variant: the whitespace after the body is kept
strip_left_only(b) == lstrip(b)

strip(b) == rstrip(lstrip(b))

fix_setup(match) ==
    <<OSU, NL8, SSU, NL8, AI, NL>> \o strip(match.group1)
        \o <<NL8, RB, NL4, RB>>

\* variant: the base call is made inside the assumeIsolated block
fix_teardown_call_inside(match) ==
    <<OTD, NL8, AI, NL>> \o strip(match.group1)
        \o <<NL8, STD, NL8, RB, NL4, RB>>

fix_teardown(match) ==
    <<OTD, NL8, AI, NL>> \o strip(match.group1)
        \o <<NL8, RB, NL8, STD, NL4, RB>>

----------------------------------------------------------------------------
(* re.sub(pattern, repl, string, count): the scan from left to right *)

PatternMatch(pattern, s, p) ==
    IF pattern = "setup_pattern" THEN setup_pattern(s, p)
    ELSE teardown_pattern(s, p)

Repl(pattern, match) ==
    IF pattern = "setup_pattern" THEN fix_setup(match) ELSE fix_teardown(match)

RECURSIVE sub_from(_, _, _, _, _)
sub_from(pattern, s, pos, count, n) ==
    IF pos > Len(s) THEN <<>>
    ELSE IF count # 0 /\ n >= count THEN SubSeq(s, pos, Len(s))
    ELSE LET m == PatternMatch(pattern, s, pos)
         IN  IF m.ok
             THEN Repl(pattern, m) \o sub_from(pattern, s, m.end + 1, count, n + 1)
             ELSE <<s[pos]>> \o sub_from(pattern, s, pos + 1, count, n)

\* variant: only the first match is replaced
re_sub_first(pattern, s, count) == sub_from(pattern, s, 1, 1, 0)

re_sub(pattern, s, count) == sub_from(pattern, s, 1, count, 0)

\* variant: pass 1 with count=1
apply_setup_once(s) == re_sub("setup_pattern", s, 1)

apply_setup(s) == re_sub("setup_pattern", s, 0)

apply_teardown(s) == re_sub("teardown_pattern", s, 0)

fix_setup_teardown(c) == apply_teardown(apply_setup(c))

----------------------------------------------------------------------------
(* The files, the argument list and the faults of the platform *)

MaxPaths == 2
MaxPieces == 5

Prog == "fix_setup_assume_isolated.py"
Paths == {"a.swift", "b.swift"}

Usage == <<"Usage: python fix_setup_assume_isolated.py <file1> [file2] ...">>
Fixed(p) == <<"Fixed: ", p>>
NoChanges(p) == <<"No changes: ", p>>

\* what open() and write() do on a path: nothing wrong, open(path, 'r') or
\* f.read() raises, open(path, 'w') raises, or open(path, 'w') succeeds
\* (emptying the file) and f.write() or the closing flush raises
Faults == {"none", "read", "open_w", "write"}

RECURSIVE SeqsUpTo(_, _)
SeqsUpTo(S, n) ==
    IF n = 0 THEN {<<>>}
    ELSE LET shorter == SeqsUpTo(S, n - 1)
         IN  shorter \cup {Append(q, x) : q \in shorter, x \in S}

\* the contents of the files of a run
FileContents ==
    { <<X, WS, RB>>,
      <<MA, WS, SUH, WS, SUC, WS, X, WS, RB, WS>>,
      <<X, MA, WS, TDH, WS, X, WS, TDC, WS, RB>>,
      <<MA, SUH, SUC, X, RB>>,
      <<MA, WS, SUH, SUC, MA, WS, SUH, SUC, RB>> }

\* sys.argv[1:]
paths == Tail(sys_argv)

Init ==
    /\ sys_argv \in {<<Prog>> \o q : q \in SeqsUpTo(Paths, MaxPaths)}
    /\ fs0 \in [Paths -> FileContents]
    /\ fs = fs0
    /\ fault \in [Paths -> Faults]
    /\ pc = "main"
    /\ idx = 0
    /\ file_path = ""
    /\ content = <<>>
    /\ modified_content = <<>>
    /\ stdout = <<>>
    /\ exit_code = -1
    /\ trace = <<>>

----------------------------------------------------------------------------
(* __main__ *)

\* variant: the test is len(sys.argv) < 1
Main_off_by_one ==
    /\ pc = "main"
    /\ IF Len(sys_argv) < 1
       THEN /\ stdout' = Append(stdout, Usage)
            /\ trace' = Append(trace, <<"print", 0, Usage>>)
            /\ exit_code' = 1
            /\ pc' = "exited"
       ELSE /\ pc' = "for"
            /\ UNCHANGED <<stdout, trace, exit_code>>
    /\ UNCHANGED <<sys_argv, fs, fs0, fault, idx, file_path, content,
                   modified_content>>

\* if len(sys.argv) < 2: print usage; sys.exit(1)
Main ==
    /\ pc = "main"
    /\ IF Len(sys_argv) < 2
       THEN /\ stdout' = Append(stdout, Usage)
            /\ trace' = Append(trace, <<"print", 0, Usage>>)
            /\ exit_code' = 1
            /\ pc' = "exited"
       ELSE /\ pc' = "for"
            /\ UNCHANGED <<stdout, trace, exit_code>>
    /\ UNCHANGED <<sys_argv, fs, fs0, fault, idx, file_path, content,
                   modified_content>>

\* for file_path in sys.argv[1:]: process_file(file_path); falling off the
\* end of the script ends the process with status 0
ForNext ==
    /\ pc = "for"
    /\ IF idx < Len(paths)
       THEN /\ idx' = idx + 1
            /\ file_path' = paths[idx + 1]
            /\ pc' = "open_r"
            /\ UNCHANGED exit_code
       ELSE /\ exit_code' = 0
            /\ pc' = "exited"
            /\ UNCHANGED <<idx, file_path>>
    /\ UNCHANGED <<sys_argv, fs, fs0, fault, content, modified_content,
                   stdout, trace>>

----------------------------------------------------------------------------
(* process_file *)

\* with open(file_path, 'r') as f: content = f.read()
ReadOk ==
    /\ pc = "open_r"
    /\ fault[file_path] # "read"
    /\ content' = fs[file_path]
    /\ trace' = Append(trace, <<"read", idx, file_path>>)
    /\ pc' = "transform"
    /\ UNCHANGED <<sys_argv, fs, fs0, fault, idx, file_path,
                   modified_content, stdout, exit_code>>

\* variant: the failure is caught and the loop goes on to the next path
ReadFail_skip ==
    /\ pc = "open_r"
    /\ fault[file_path] = "read"
    /\ pc' = "for"
    /\ UNCHANGED <<sys_argv, fs, fs0, fault, idx, file_path, content,
                   modified_content, stdout, exit_code, trace>>

\* the same statement raising: nothing catches it, the interpreter prints
\* the traceback and ends the process with status 1
ReadFail ==
    /\ pc = "open_r"
    /\ fault[file_path] = "read"
    /\ exit_code' = 1
    /\ pc' = "raised"
    /\ UNCHANGED <<sys_argv, fs, fs0, fault, idx, file_path, content,
                   modified_content, stdout, trace>>

\* modified_content = fix_setup_teardown(content)
Transform ==
    /\ pc = "transform"
    /\ modified_content' = fix_setup_teardown(content)
    /\ pc' = "compare"
    /\ UNCHANGED <<sys_argv, fs, fs0, fault, idx, file_path, content,
                   stdout, exit_code, trace>>

\* variant: the file is written whether or not the text changed
WriteOk_unconditional ==
    /\ pc = "compare"
    /\ fault[file_path] \notin {"open_w", "write"}
    /\ fs' = [fs EXCEPT ![file_path] = modified_content]
    /\ trace' = trace \o << <<"open_w", idx, file_path>>,
                            <<"write", idx, file_path>> >>
    /\ pc' = "print_fixed"
    /\ UNCHANGED <<sys_argv, fs0, fault, idx, file_path, content,
                   modified_content, stdout, exit_code>>

\* variant: the file is opened with 'a' and the new text appended
WriteOk_append ==
    /\ pc = "compare"
    /\ modified_content # content
    /\ fault[file_path] \notin {"open_w", "write"}
    /\ fs' = [fs EXCEPT ![file_path] = fs[file_path] \o modified_content]
    /\ trace' = trace \o << <<"open_w", idx, file_path>>,
                            <<"write", idx, file_path>> >>
    /\ pc' = "print_fixed"
    /\ UNCHANGED <<sys_argv, fs0, fault, idx, file_path, content,
                   modified_content, stdout, exit_code>>

\* variant: f.write(content), the text read, not the transformed one
WriteOk_original_text ==
    /\ pc = "compare"
    /\ modified_content # content
    /\ fault[file_path] \notin {"open_w", "write"}
    /\ fs' = [fs EXCEPT ![file_path] = content]
    /\ trace' = trace \o << <<"open_w", idx, file_path>>,
                            <<"write", idx, file_path>> >>
    /\ pc' = "print_fixed"
    /\ UNCHANGED <<sys_argv, fs0, fault, idx, file_path, content,
                   modified_content, stdout, exit_code>>

\* if modified_content != content:
\*     with open(file_path, 'w') as f: f.write(modified_content)
WriteOk ==
    /\ pc = "compare"
    /\ modified_content # content
    /\ fault[file_path] \notin {"open_w", "write"}
    /\ fs' = [fs EXCEPT ![file_path] = modified_content]
    /\ trace' = trace \o << <<"open_w", idx, file_path>>,
                            <<"write", idx, file_path>> >>
    /\ pc' = "print_fixed"
    /\ UNCHANGED <<sys_argv, fs0, fault, idx, file_path, content,
                   modified_content, stdout, exit_code>>

\* open(file_path, 'w') raising: the file is as it was
WriteOpenFail ==
    /\ pc = "compare"
    /\ modified_content # content
    /\ fault[file_path] = "open_w"
    /\ exit_code' = 1
    /\ pc' = "raised"
    /\ UNCHANGED <<sys_argv, fs, fs0, fault, idx, file_path, content,
                   modified_content, stdout, trace>>

\* open(file_path, 'w') emptying the file, then f.write() or the flush on
\* leaving the with block raising: a proper prefix of the text is on disk
WriteFail ==
    /\ pc = "compare"
    /\ modified_content # content
    /\ fault[file_path] = "write"
    /\ \E k \in 0..(Len(modified_content) - 1) :
           fs' = [fs EXCEPT ![file_path] = SubSeq(modified_content, 1, k)]
    /\ trace' = Append(trace, <<"open_w", idx, file_path>>)
    /\ exit_code' = 1
    /\ pc' = "raised"
    /\ UNCHANGED <<sys_argv, fs0, fault, idx, file_path, content,
                   modified_content, stdout>>

\* print(f"Fixed: {file_path}")
PrintFixed ==
    /\ pc = "print_fixed"
    /\ stdout' = Append(stdout, Fixed(file_path))
    /\ trace' = Append(trace, <<"print", idx, Fixed(file_path)>>)
    /\ pc' = "for"
    /\ UNCHANGED <<sys_argv, fs, fs0, fault, idx, file_path, content,
                   modified_content, exit_code>>

\* variant: an unchanged file is passed over without a status line
PrintNoChanges_silent ==
    /\ pc = "compare"
    /\ modified_content = content
    /\ pc' = "for"
    /\ UNCHANGED <<sys_argv, fs, fs0, fault, idx, file_path, content,
                   modified_content, stdout, exit_code, trace>>

\* else: print(f"No changes: {file_path}")
PrintNoChanges ==
    /\ pc = "compare"
    /\ modified_content = content
    /\ stdout' = Append(stdout, NoChanges(file_path))
    /\ trace' = Append(trace, <<"print", idx, NoChanges(file_path)>>)
    /\ pc' = "for"
    /\ UNCHANGED <<sys_argv, fs, fs0, fault, idx, file_path, content,
                   modified_content, exit_code>>

Next ==
    \/ Main
    \/ ForNext
    \/ ReadOk
    \/ ReadFail
    \/ Transform
    \/ WriteOk
    \/ WriteOpenFail
    \/ WriteFail
    \/ PrintFixed
    \/ PrintNoChanges

Spec == Init /\ [][Next]_vars

----------------------------------------------------------------------------
(* The rewriter alone: one file of any text built of up to MaxPieces pieces *)

HS == <<MA, WS, SUH, WS, SUC>>
HT == <<MA, WS, TDH>>

Pieces == {HS, HT, <<TDC>>, <<RB>>, <<WS>>, <<X>>}

RECURSIVE Texts(_)
Texts(n) ==
    IF n = 0 THEN {<<>>}
    ELSE LET shorter == Texts(n - 1)
         IN  shorter \cup {q \o x : q \in shorter, x \in Pieces}

TransformInit ==
    /\ sys_argv = <<Prog, "a.swift">>
    /\ \E c \in Texts(MaxPieces) :
           fs0 = [p \in Paths |-> IF p = "a.swift" THEN c ELSE <<>>]
    /\ fs = fs0
    /\ fault = [p \in Paths |-> "none"]
    /\ pc = "main"
    /\ idx = 0
    /\ file_path = ""
    /\ content = <<>>
    /\ modified_content = <<>>
    /\ stdout = <<>>
    /\ exit_code = -1
    /\ trace = <<>>

TransformNext ==
    \/ Main
    \/ ForNext
    \/ ReadOk
    \/ Transform
    \/ WriteOk
    \/ PrintFixed
    \/ PrintNoChanges

TransformSpec == TransformInit /\ [][TransformNext]_vars

----------------------------------------------------------------------------
(* What a block is, stated on positions, and the blocks a pass replaces *)

SetMin(S) == CHOOSE x \in S : \A y \in S : x <= y
SetMax(S) == CHOOSE x \in S : \A y \in S : x >= y

AllSpace(s, lo, hi) == \A i \in lo..hi : IsSpace(s[i])

\* b without the whitespace before its first and after its last other token
Trimmed(b) ==
    LET solid == {i \in 1..Len(b) : ~IsSpace(b[i])}
    IN  IF solid = {} THEN <<>> ELSE SubSeq(b, SetMin(solid), SetMax(solid))

NoBlock == [ok |-> FALSE, end |-> 0, body |-> <<>>]

\* annotation, whitespace, setUp header, optional whitespace, base call, B, }
\* where B holds no }
SetupBlock(s, p) ==
    LET hs == {h \in (p + 2)..Len(s) : s[h] = SUH /\ AllSpace(s, p + 1, h - 1)}
    IN  IF p > Len(s) \/ s[p] # MA \/ hs = {} THEN NoBlock
        ELSE LET h  == SetMin(hs)
                 cs == {c \in (h + 1)..Len(s) :
                            s[c] = SUC /\ AllSpace(s, h + 1, c - 1)}
             IN  IF cs = {} THEN NoBlock
                 ELSE LET c  == SetMin(cs)
                          es == {e \in (c + 1)..Len(s) : s[e] = RB}
                      IN  IF es = {} THEN NoBlock
                          ELSE [ok |-> TRUE, end |-> SetMin(es),
                                body |-> SubSeq(s, c + 1, SetMin(es) - 1)]

\* annotation, whitespace, tearDown header, B, base call, optional
\* whitespace, }  where the base call is the first one a } follows
TeardownBlock(s, p) ==
    LET hs == {h \in (p + 2)..Len(s) : s[h] = TDH /\ AllSpace(s, p + 1, h - 1)}
    IN  IF p > Len(s) \/ s[p] # MA \/ hs = {} THEN NoBlock
        ELSE LET h  == SetMin(hs)
                 ks == {k \in (h + 1)..Len(s) :
                            /\ s[k] = TDC
                            /\ \E e \in (k + 1)..Len(s) :
                                   s[e] = RB /\ AllSpace(s, k + 1, e - 1)}
             IN  IF ks = {} THEN NoBlock
                 ELSE LET k == SetMin(ks)
                          e == SetMin({e \in (k + 1)..Len(s) : s[e] = RB})
                      IN  [ok |-> TRUE, end |-> e,
                           body |-> SubSeq(s, h + 1, k - 1)]

Block(pattern, s, p) ==
    IF pattern = "setup_pattern" THEN SetupBlock(s, p) ELSE TeardownBlock(s, p)

\* the starts of the blocks that do not begin inside an earlier one of them
Starts(pattern, s) ==
    LET C == {p \in 1..Len(s) : Block(pattern, s, p).ok}
    IN  CHOOSE S \in SUBSET C :
            \A p \in C :
                p \in S <=> ~\E q \in S : q < p /\ p <= Block(pattern, s, q).end

\* both templates add ten tokens around the trimmed body
Growth(pattern, s, q) ==
    LET b == Block(pattern, s, q)
    IN  10 + Len(Trimmed(b.body)) - (b.end - q + 1)

RECURSIVE GrowthBefore(_, _, _, _)
GrowthBefore(pattern, s, S, p) ==
    IF S = {} THEN 0
    ELSE LET q == CHOOSE q \in S : TRUE
         IN  (IF q < p THEN Growth(pattern, s, q) ELSE 0)
                 + GrowthBefore(pattern, s, S \ {q}, p)

\* where the rewrite of the block at p begins in the output of the pass
OutPos(pattern, s, p) == p + GrowthBefore(pattern, s, Starts(pattern, s), p)

Range(q) == {q[i] : i \in 1..Len(q)}

----------------------------------------------------------------------------
(* Properties of fix_setup_teardown, read where Transform has just run:    *)
(* content is the input, modified_content the output of both passes        *)

Transformed == pc = "compare"

SetupBodies(s) ==
    {SetupBlock(s, p).body : p \in Starts("setup_pattern", s)}

TeardownBodies(s) ==
    {TeardownBlock(s, p).body : p \in Starts("teardown_pattern", s)}

\* no body captured by either pass holds the annotation
NoAnnotationCaptured(c) ==
    /\ \A b \in SetupBodies(c) : MA \notin Range(b)
    /\ \A b \in TeardownBodies(apply_setup(c)) : MA \notin Range(b)

\* C1, as stated: applying fix_setup_teardown to its own output changes
\* nothing, whatever the input text
C1_IdempotentOnEveryText ==
    Transformed =>
        fix_setup_teardown(modified_content) = modified_content

\* C1, amended: applying fix_setup_teardown to its own output changes
\* nothing when no body captured by either pass holds "@MainActor"
C1_IdempotentWithoutNestedAnnotation ==
    Transformed /\ NoAnnotationCaptured(content) =>
        fix_setup_teardown(modified_content) = modified_content

C1_Witness ==
    /\ Transformed
    /\ NoAnnotationCaptured(content)
    /\ SetupBodies(content) # {}
    /\ modified_content # content
    /\ fix_setup_teardown(modified_content) = modified_content

\* C4: in the output of pass 1, in place of every setUp block the pass
\* replaces stands: override func setUp() {, super.setUp(),
\* MainActor.assumeIsolated {, the body trimmed at both ends and otherwise
\* as it was, }, }  -- with no annotation, async or throws
C4_SetupRewrite ==
    Transformed =>
        \A p \in Starts("setup_pattern", content) :
            LET t == Trimmed(SetupBlock(content, p).body)
                o == OutPos("setup_pattern", content, p)
            IN  SubSeq(apply_setup(content), o, o + 9 + Len(t))
                    = <<OSU, NL8, SSU, NL8, AI, NL>> \o t \o <<NL8, RB, NL4, RB>>

\* a block whose body has whitespace at both ends and inside has been rewritten
C4_Witness ==
    /\ Transformed
    /\ \E p \in Starts("setup_pattern", content) :
           LET b == SetupBlock(content, p).body
           IN  /\ Len(b) >= 3
               /\ IsSpace(b[1])
               /\ IsSpace(b[Len(b)])
               /\ Len(Trimmed(b)) >= 1
    /\ modified_content # content

\* C5: in the output of pass 2, in place of every tearDown block the pass
\* replaces stands: override func tearDown() {, MainActor.assumeIsolated {,
\* the body trimmed at both ends and otherwise as it was, }, and after that
\* closing brace super.tearDown(), }
C5_TeardownRewrite ==
    Transformed =>
        LET mid == apply_setup(content)
        IN  \A p \in Starts("teardown_pattern", mid) :
                LET t == Trimmed(TeardownBlock(mid, p).body)
                    o == OutPos("teardown_pattern", mid, p)
                IN  SubSeq(modified_content, o, o + 9 + Len(t))
                        = <<OTD, NL8, AI, NL>> \o t
                              \o <<NL8, RB, NL8, STD, NL4, RB>>

C5_Witness ==
    /\ Transformed
    /\ \E p \in Starts("teardown_pattern", apply_setup(content)) :
           LET b == TeardownBlock(apply_setup(content), p).body
           IN  /\ Len(b) >= 2
               /\ IsSpace(b[1])
               /\ Len(Trimmed(b)) >= 1
    /\ modified_content # content

\* s with every block of Starts replaced by its rewrite and every other
\* token kept in place
RECURSIVE Flatten(_)
Flatten(qs) == IF qs = <<>> THEN <<>> ELSE Head(qs) \o Flatten(Tail(qs))

Spliced(pattern, s) ==
    LET S == Starts(pattern, s)
        inside(i) == \E q \in S : q < i /\ i <= Block(pattern, s, q).end
    IN  Flatten([i \in 1..Len(s) |->
            IF i \in S THEN Repl(pattern, PatternMatch(pattern, s, i))
            ELSE IF inside(i) THEN <<>>
            ELSE <<s[i]>>])

Matches(pattern, s) == {p \in 1..Len(s) : Block(pattern, s, p).ok}

\* C6: the output is the input with all the non-overlapping blocks of the
\* setUp pattern, then all those of the tearDown pattern, replaced in place
\* and every token outside them kept in its order; a text matching neither
\* pattern comes back as it was
C6_GlobalSubstitution ==
    Transformed =>
        /\ modified_content
               = Spliced("teardown_pattern", Spliced("setup_pattern", content))
        /\ (Matches("setup_pattern", content) = {}
                /\ Matches("teardown_pattern", content) = {})
               => modified_content = content

\* two blocks rewritten with text kept before, between or after them
C6_Witness ==
    /\ Transformed
    /\ Cardinality(Starts("setup_pattern", content)) >= 2
    /\ Len(modified_content) >= 22
    /\ \E i \in 1..Len(content) :
           /\ i \notin Starts("setup_pattern", content)
           /\ ~\E q \in Starts("setup_pattern", content) :
                  q < i /\ i <= SetupBlock(content, q).end

----------------------------------------------------------------------------
(* Properties of process_file and of the loop over the arguments *)

Last(q) == q[Len(q)]

\* process_file(paths[idx]) has returned; content is the text it read
Returned == pc = "for" /\ idx >= 1

Events == Range(trace)

OpenedForWriting(k) == <<"open_w", k, paths[k]>> \in Events

\* C2: when the text read is a fixed point of fix_setup_teardown, the file
\* has not been opened for writing, holds the text read, and the status
\* line is "No changes: <path>"; a file is opened for writing only when
\* the transformed text differs from the text read
C2_NoOpLeavesFile ==
    /\ (Returned /\ fix_setup_teardown(content) = content) =>
           /\ ~OpenedForWriting(idx)
           /\ fs[file_path] = content
           /\ Len(stdout) = idx
           /\ Last(stdout) = NoChanges(file_path)
    /\ (idx >= 1 /\ OpenedForWriting(idx)) =>
           fix_setup_teardown(content) # content

C2_Witness ==
    /\ Returned
    /\ fix_setup_teardown(content) = content
    /\ Last(stdout) = NoChanges(file_path)
    /\ fs[file_path] = fs0[file_path]

\* C3: when the text read is not a fixed point, then once process_file has
\* returned the file holds exactly the transformed text and the status line
\* is "Fixed: <path>"; the file was written before the line was printed
C3_ChangedFileRewritten ==
    /\ (Returned /\ fix_setup_teardown(content) # content) =>
           /\ fs[file_path] = fix_setup_teardown(content)
           /\ Len(stdout) = idx
           /\ Last(stdout) = Fixed(file_path)
           /\ Len(trace) >= 3
           /\ SubSeq(trace, Len(trace) - 2, Len(trace))
                  = << <<"open_w", idx, file_path>>,
                       <<"write", idx, file_path>>,
                       <<"print", idx, Fixed(file_path)>> >>
    /\ pc = "print_fixed" =>
           /\ fs[file_path] = fix_setup_teardown(content)
           /\ Len(stdout) = idx - 1

C3_Witness ==
    /\ Returned
    /\ fix_setup_teardown(content) # content
    /\ Last(stdout) = Fixed(file_path)

\* argument k was read, and written if need be, and its status line printed
ProcessedOk(k) ==
    /\ fault[paths[k]] # "read"
    /\ k <= Len(stdout)
    /\ stdout[k] \in {Fixed(paths[k]), NoChanges(paths[k])}
    /\ stdout[k] = Fixed(paths[k]) => fault[paths[k]] \notin {"open_w", "write"}

\* C7: the run goes past argument k, or ends with status 0, only if reading
\* and writing k succeeded; when reading or writing argument k raises, the
\* process ends with status 1, nothing runs any more, no argument after k
\* has been opened, read, written or reported and no status line was
\* printed for k
C7_AbortOnIOFailure ==
    /\ \A k \in 1..Len(paths) :
           (idx > k \/ (pc = "exited" /\ exit_code = 0)) => ProcessedOk(k)
    /\ pc = "raised" =>
           /\ exit_code = 1
           /\ ~ENABLED Next
           /\ Len(stdout) = idx - 1
           /\ \A e \in Events : e[2] <= idx /\ (e[1] = "print" => e[2] < idx)

C7_Witness ==
    /\ pc = "raised"
    /\ idx < Len(paths)
    /\ exit_code = 1

\* C8: with no file argument the run prints the usage message and ends
\* with status 1; process_file is never entered and no file is opened,
\* read or written
C8_UsageOnNoArguments ==
    Len(paths) = 0 =>
        /\ pc \in {"main", "exited"}
        /\ pc = "exited" => exit_code = 1 /\ stdout = <<Usage>>
        /\ idx = 0
        /\ fs = fs0
        /\ \A e \in Events : e = <<"print", 0, Usage>>

C8_Witness ==
    /\ Len(paths) = 0
    /\ pc = "exited"
    /\ stdout = <<Usage>>

\* every argument can be read and written
AllOk == \A k \in 1..Len(paths) : fault[paths[k]] = "none"

\* the events of argument k: a read, then the two of a write if there is
\* one, then its status line
Cycle(k) ==
    LET own == {i \in 1..Len(trace) : trace[i][2] = k}
    IN  /\ own # {}
        /\ own = SetMin(own)..SetMax(own)
        /\ trace[SetMin(own)] = <<"read", k, paths[k]>>
        /\ \A i \in own : i > SetMin(own) => trace[i][1] # "read"
        /\ trace[SetMax(own)] = <<"print", k, stdout[k]>>
        /\ \A i \in own, j \in 1..Len(trace) : trace[j][2] < k => j < i

C9_RunShape ==
    (AllOk /\ Len(paths) >= 1) =>
        /\ pc # "raised"
        /\ Len(stdout) \in {idx - 1, idx}
        /\ \A k \in 1..Len(stdout) :
               /\ stdout[k] \in {Fixed(paths[k]), NoChanges(paths[k])}
               /\ Cycle(k)
        /\ \A e \in Events : e[2] \in 1..idx
        /\ pc = "exited" =>
               /\ exit_code = 0
               /\ Len(stdout) = Len(paths)

C9_Done == pc = "exited" /\ exit_code = 0 /\ Len(stdout) = Len(paths)

\* a bound on the steps the run still takes: six a remaining argument, and
\* those left in the current one
StepsLeft ==
    6 * (Len(paths) - idx)
        + CASE pc = "main" -> 1
            [] pc = "open_r" -> 4
            [] pc = "transform" -> 3
            [] pc = "compare" -> 2
            [] pc = "print_fixed" -> 1
            [] pc = "for" -> 0
            [] OTHER -> -1

\* some step is possible; Transform has no guard but its place in the code
CanStep ==
    \/ pc = "transform"
    \/ ENABLED (Main \/ ForNext \/ ReadOk \/ ReadFail \/ WriteOk
                    \/ WriteOpenFail \/ WriteFail \/ PrintFixed
                    \/ PrintNoChanges)

\* C9: when every one of the n >= 1 arguments can be read and written, the
\* run ends with status 0, having printed exactly n status lines, the i-th
\* for argument i, and the events of argument i (read, write, status line)
\* all come before those of argument i+1; until then a step is always
\* possible and every step brings the end nearer
C9_SequentialCompleteRun ==
    /\ []C9_RunShape
    /\ []((AllOk /\ Len(paths) >= 1) => (C9_Done \/ CanStep))
    /\ [][(AllOk /\ Len(paths) >= 1) => StepsLeft' < StepsLeft]_vars

C9_Witness ==
    /\ AllOk
    /\ Len(paths) >= 2
    /\ C9_Done
    /\ \E k \in 1..Len(paths) : stdout[k] = Fixed(paths[k])
    /\ \E k \in 1..Len(paths) : stdout[k] = NoChanges(paths[k])

RECURSIVE FixN(_, _)
FixN(c, n) == IF n = 0 THEN c ELSE FixN(fix_setup_teardown(c), n - 1)

Occurrences(p, k) == Cardinality({j \in 1..k : paths[j] = p})

Modified == {p \in Paths : fs[p] # fs0[p]}

\* the files among arguments 1..k-1 that needed a change
ChangedBefore(k) ==
    {paths[j] : j \in {j \in 1..(k - 1) :
                          fix_setup_teardown(fs0[paths[j]]) # fs0[paths[j]]}}

\* C10, as stated: at an abort at argument k the changed files among
\* arguments 1..k-1 are rewritten and reported, and they are exactly the
\* files that differ from what they were
C10_ModifiedAreExactlyEarlierChanged ==
    pc = "raised" =>
        /\ \A p \in ChangedBefore(idx) :
               /\ Fixed(p) \in Range(stdout)
               /\ fs[p] = FixN(fs0[p], Occurrences(p, idx - 1))
        /\ Modified = ChangedBefore(idx)

\* C10, amended: at an abort at argument k the changed files among
\* arguments 1..k-1 are reported, and are rewritten and stay so, and they
\* are exactly the files that differ from what they were -- all this apart
\* from the file of argument k itself when the failure came after that file
\* was opened for writing, which holds a proper prefix of the new text
C10_NoRollbackOnAbort ==
    pc = "raised" =>
        LET hit == IF OpenedForWriting(idx) THEN {paths[idx]} ELSE {}
        IN  /\ \A p \in ChangedBefore(idx) : Fixed(p) \in Range(stdout)
            /\ \A p \in ChangedBefore(idx) \ hit :
                   fs[p] = FixN(fs0[p], Occurrences(p, idx - 1))
            /\ Modified \ hit = ChangedBefore(idx) \ hit
            /\ \A p \in hit :
                   /\ Len(fs[p]) < Len(modified_content)
                   /\ fs[p] = SubSeq(modified_content, 1, Len(fs[p]))

C10_Witness ==
    /\ pc = "raised"
    /\ idx >= 2
    /\ ChangedBefore(idx) # {}
    /\ paths[idx] \notin ChangedBefore(idx)
    /\ OpenedForWriting(idx)

====
